---- MODULE Spec2Model ----
(***************************************************************************)
(* A model of the qxfs client proxy: QXfsStream (qxfsstream.cpp) and       *)
(* QXfsSocketStream (qxfssocketstream.cpp).                                *)
(*                                                                         *)
(* One Qt thread runs everything.  The application calls the public        *)
(* operations from event-loop callbacks; getInfo() and syncCancel() block  *)
(* in a nested QEventLoop, so the blocked calls form a stack and only the  *)
(* innermost loop can return.  Inbound frames and transport disconnects    *)
(* are dispatched synchronously through the `message' signal.              *)
(***************************************************************************)
EXTENDS Integers, Sequences, FiniteSets, TLC

\* ------------------------------------------------------------ bounds
MaxIds == 4        \* request ids (QUuid values) that may be minted in a run
MaxQueue == 2      \* longest per-identity command queue that is explored
MaxDepth == 2      \* deepest nesting of blocking calls that is explored
MaxSent == 3         \* frames the backend writes to one byte stream

\* ------------------------------------------------------------ values
Proxies == {"p1", "p2", "p3"}
Ids == 1 .. MaxIds
NoId == 0                       \* QString(): the empty id
Absent == "<absent>"            \* a key the QVariantMap does not contain
None == << >>                   \* no lpBuffer
Some(x) == << x >>

Commands == {"EJECT", "READ"}
\* the payload the application passes with each command
lpCmdDataOf(c) == IF c = "EJECT" THEN "none" ELSE "track2"
CapMaps == {{}, {"front"}, {"rear"}}

\* the constructor arguments of each proxy slot: deviceId and strClass
objectName(p) == IF p = "p3" THEN "PIN1" ELSE "CRD1"
m_strClass(p) == IF p = "p3" THEN "PIN" ELSE "CRD"
Identities == {objectName(p) : p \in Proxies}

m_statusCategory(p) ==
    IF m_strClass(p) = "PIN" THEN "WFS_INF_PIN_STATUS" ELSE "WFS_INF_CRD_STATUS"
m_capabilitiesCategory(p) ==
    IF m_strClass(p) = "PIN" THEN "WFS_INF_PIN_CAPABILITIES"
    ELSE "WFS_INF_CRD_CAPABILITIES"

\* A device address: the scheme (the first six characters, or the whole
\* string "local") and what deviceAddress.mid(6).split(":") yields.
\* A port token is "8080" (numeric) or "abc" (toUInt fails).
Addr(scheme, parts) == [scheme |-> scheme, parts |-> parts]
LocalAddr == Addr("local", << >>)
TcpAddr == Addr("tcp://", << "host", "8080" >>)
SslAddr == Addr("ssl://", << "host", "8080" >>)
FtpAddr == Addr("ftp://", << "x" >>)
TcpNoPort == Addr("tcp://", << "host" >>)
SslBadPort == Addr("ssl://", << "host", "abc" >>)
NoAddr == Addr("", << >>)
\* the addresses tried for each proxy slot
AddressesOf(p) ==
    CASE p = "p1" -> {LocalAddr, FtpAddr}
      [] p = "p2" -> {TcpAddr, TcpNoPort}
      [] OTHER -> {SslAddr, SslBadPort}

toUIntOk(tok) == tok = "8080"

\* createSocket: the QIODevice handed to the base class (null for a bad
\* address), m_socket, m_isLocal and m_isSsl.
createSocket(a) ==
    LET isLocal == a.scheme = "local"
        isTcp == a.scheme = "tcp://"
        isSsl == ~isLocal /\ ~isTcp /\ a.scheme = "ssl://"
        made == isLocal \/ isTcp \/ isSsl
        good == isLocal \/ (made /\ Len(a.parts) = 2 /\ toUIntOk(a.parts[2]))
    IN  [io |-> good, m_socket |-> made, m_isLocal |-> isLocal,
         m_isSsl |-> isSsl]

\* ------------------------------------------------------------ messages
Msg(id, hr, m, cc, buf) ==
    [msgid |-> id, hResult |-> hr, message |-> m, dwCommandCode |-> cc,
     lpBuffer |-> buf]
NoMsg == Msg(NoId, Absent, Absent, Absent, None)     \* an empty QVariantMap

\* The frames the backend may send about the ids in I: replies shaped like
\* execute replies (the echoed command code may be the wrong one), replies
\* shaped like getInfo replies, and events.
ExecFrames(I) ==
    {Msg(i, "WFS_SUCCESS", m, cc, None) :
        i \in I,
        m \in {Absent, "WFS_EXECUTE_COMPLETE", "WFS_EXECUTE_EVENT"},
        cc \in Commands}
    \cup {Msg(i, "WFS_ERR_HARDWARE_ERROR", m, "EJECT", None) :
            i \in I, m \in {Absent, "WFS_EXECUTE_COMPLETE"}}
InfoFrames(I) ==
    {Msg(i, "WFS_SUCCESS", m, Absent, buf) :
        i \in I, m \in {Absent, "WFS_GETINFO_COMPLETE"},
        buf \in {None} \cup {Some(c) : c \in CapMaps}}
    \cup {Msg(i, "WFS_ERR_HARDWARE_ERROR", Absent, Absent, buf) :
            i \in I, buf \in {None, Some({"front"})}}
EventFrames(I) ==
    {Msg(NoId, Absent, m, Absent, None) :
        m \in {"WFS_SERVICE_EVENT", "WFS_USER_EVENT", "WFS_SYSTEM_EVENT"}}
    \cup {Msg(i, "WFS_SUCCESS", "WFS_SYSTEM_EVENT", "EJECT", None) : i \in I}

\* ------------------------------------------------------------ state
VARIABLES
    build,      \* "debug" (Q_ASSERT aborts) or "release" (Q_ASSERT is empty)
    proc,       \* "running", "aborted", "crashed" or "deadlocked"
    devices,    \* the global list of QXfsStream instances
    addr,       \* the address each live proxy was constructed with
    conn,       \* the socket of each proxy is in ConnectedState
    m_pending,  \* per proxy: msgid -> dwCommand
    handlers,   \* per proxy: the lambdas connected to message, by msgid
    stale,      \* per proxy: the c2 lambdas finished syncCancels left
                \* connected: the target id, and the nesting depth of the call
    commands,   \* per identity: the list of <<dwCommand, lpCmdData>>
    m_capabilities, \* per identity: the cached capability map
    capLock,    \* capabilitiesMutex is held
    warnOnce,   \* the identities already warned about
    uuids,      \* the values QUuid::createUuid() has yet to return
    stack,      \* the blocked getInfo / syncCancel calls, innermost last
    out,        \* the signals emitted by the last step, in order
    ret,        \* what the call that returned in the last step returned
    issued,     \* history: what each id was minted for
    nComplete,  \* history: executeComplete / cancelComplete emitted per id
    acked,      \* history: per identity, acknowledged executes not yet
                \* completed, oldest first
    hres,       \* history: the hResult of the reply that finished each id
    nWarn,      \* history: warnings logged per identity
    nQuery,     \* history: capability queries written per identity
    m_io,       \* per proxy, the byte stream of its device: the bytes the
                \* backend wrote that have not arrived yet (inflight) and the
                \* bytes available to read (avail)
    wire        \* history: per proxy, the frames the backend wrote (sent)
                \* and the frames readyRead dispatched (got), in order

vars == << build, proc, devices, addr, conn, m_pending, handlers, stale,
           commands, m_capabilities, capLock, warnOnce, uuids, stack, out,
           ret, issued, nComplete, acked, hres, nWarn, nQuery, m_io, wire >>

\* ------------------------------------------------------------ helpers
Remove(f, k) == [x \in DOMAIN f \ {k} |-> f[x]]
Put(f, k, v) == [x \in DOMAIN f \cup {k} |-> IF x = k THEN v ELSE f[x]]
EmptyMap == [x \in {} |-> 0]
Has(f, k) == k \in DOMAIN f
\* (mutant) nothing is taken out of the list
SeqWithout_KeepsAll(s, e) == s

SeqWithout(s, e) == SelectSeq(s, LAMBDA x : x # e)
RECURSIVE SortedSeq(_)
SortedSeq(S) ==
    IF S = {} THEN << >>
    ELSE LET m == CHOOSE x \in S : \A y \in S : x <= y
         IN  << m >> \o SortedSeq(S \ {m})
Live(p) == \E i \in 1 .. Len(devices) : devices[i] = p
Used == {i \in Ids : issued[i].fn # ""}     \* the ids minted so far

Signal(sig, dev, msg, cmd, data) ==
    [sig |-> sig, dev |-> dev, msg |-> msg, dwCommand |-> cmd,
     lpCmdData |-> data]
Ret(fn, dev, id, ok, msg, caps) ==
    [fn |-> fn, dev |-> dev, id |-> id, ok |-> ok, msg |-> msg,
     caps |-> caps]
NoRet == Ret("", "", NoId, FALSE, NoMsg, {})
NoIssue == [fn |-> "", dev |-> "", dwCommand |-> "", lpCmdData |-> "",
            target |-> NoId]

\* Q_ASSERT(cond) ends the process in a debug build and is empty otherwise
AssertFails(cond) == build = "debug" /\ ~cond

\* The part of the state a dispatch changes, as one record.
Cur ==
    [m_pending |-> m_pending, handlers |-> handlers, commands |-> commands,
     stack |-> stack, out |-> << >>, nComplete |-> nComplete,
     acked |-> acked, hres |-> hres, proc |-> proc]

\* ------------------------------------------------------------ command queue
currentCommand(q, p) ==
    IF q[objectName(p)] # << >> THEN Head(q[objectName(p)])
    ELSE << "", "" >>

\* (mutant) the pair is put at the head of the queue
appendCommand_AtHead(q, p, cmd) ==
    [q EXCEPT ![objectName(p)] = << cmd >> \o @]

appendCommand(q, p, cmd) ==
    [q EXCEPT ![objectName(p)] = Append(@, cmd)]

finishCommand(q, p) ==
    [q EXCEPT ![objectName(p)] = IF @ # << >> THEN Tail(@) ELSE @]

\* (mutant) done forgets every pending request of the proxy
done_ClearsPending(s, p, msgid) ==
    [s EXCEPT !.commands = finishCommand(@, p),
              !.m_pending[p] = EmptyMap]

done(s, p, msgid) ==
    [s EXCEPT !.commands = finishCommand(@, p),
              !.m_pending[p] = Remove(@, msgid)]

Emit(s, sig) == [s EXCEPT !.out = Append(@, sig)]

\* ------------------------------------------------------------ signals
\* emit executeComplete(msg) on p: the application's subscribers see it, and
\* so does every c2 lambda of a syncCancel: those of the calls still blocked
\* and those a finished call left connected, whose captured locals are gone
\* (ub is what running such a lambda does).
C2Slot(f, p, msg) ==
    IF f.fn = "syncCancel" /\ f.dev = p /\ f.reqMsgId = msg.msgid
    THEN IF f.c2
         THEN [f EXCEPT !.c2 = FALSE, !.exited = f.exited \/ f.finish,
                        !.finish = TRUE, !.sawExec = TRUE]
         ELSE [f EXCEPT !.sawExec = TRUE]
    ELSE f

\* a c2 lambda left connected by a finished syncCancel runs: its captured
\* references (c2, finish, loop) point into the stack frame of that call.
\* With ub = "reuse" that storage is now the locals of a syncCancel blocked
\* at the same nesting depth, so the lambda disconnects that call's c2 and
\* drives that call's finish flag and loop.
StaleC2(stk, depths) ==
    [n \in 1 .. Len(stk) |->
        IF n \in depths /\ stk[n].fn = "syncCancel"
        THEN [stk[n] EXCEPT !.c2 = FALSE,
                            !.exited = @ \/ stk[n].finish,
                            !.finish = TRUE]
        ELSE stk[n]]

EmitExecuteComplete(s, p, msg, ub) ==
    LET s1 == Emit(s, Signal("executeComplete", p, msg, "", ""))
        d == objectName(p)
        left == {e \in stale[p] : e.id = msg.msgid}
        isStale == left # {}
        stk == IF ub = "reuse"
               THEN StaleC2(s1.stack, {e.depth : e \in left})
               ELSE s1.stack
        s2 == [s1 EXCEPT
                 !.nComplete[msg.msgid] = @ + 1,
                 !.hres[msg.msgid] = msg.hResult,
                 !.acked[d] = SeqWithout(@, msg.msgid),
                 !.stack = [i \in 1 .. Len(stk) |-> C2Slot(stk[i], p, msg)]]
    IN  IF isStale /\ ub = "crash"
        THEN [s2 EXCEPT !.proc = "crashed"]
        ELSE s2

\* emit cancelComplete(msg) on p, which runs the c1 lambda of a blocked
\* syncCancel waiting for this cancel id.
C1Slot(f, p, msg) ==
    IF f.fn = "syncCancel" /\ f.dev = p /\ f.c1 /\ f.msgid = msg.msgid
    THEN LET leave == f.finish \/ msg.hResult # "WFS_SUCCESS"
         IN  [f EXCEPT !.c1 = FALSE, !.exited = f.exited \/ leave,
                       !.finish = IF leave THEN f.finish ELSE TRUE]
    ELSE f

EmitCancelComplete(s, p, msg) ==
    LET s1 == Emit(s, Signal("cancelComplete", p, msg, "", ""))
    IN  [s1 EXCEPT
           !.nComplete[msg.msgid] = @ + 1,
           !.hres[msg.msgid] = msg.hResult,
           !.stack = [i \in 1 .. Len(s1.stack) |->
                         C1Slot(s1.stack[i], p, msg)]]

\* (mutant) only the issuing proxy is told
Broadcast_IssuerOnly(s, p, msg, cmd, data) ==
    Emit(s, Signal("executeEventBroadcasted", p, msg, cmd, data))

\* the global mutexes the emitting code holds while the slots of a signal run
LocksHeldAtEmit(sig) ==
    IF sig = "executeEventBroadcasted" THEN {"deviceMutex"} ELSE {}

\* the loop over the device list under deviceMutex
RECURSIVE BroadcastFrom(_, _, _, _, _, _)
BroadcastFrom(s, i, p, msg, cmd, data) ==
    IF i > Len(devices) THEN s
    ELSE BroadcastFrom(
            IF objectName(devices[i]) = objectName(p)
            THEN Emit(s, Signal("executeEventBroadcasted", devices[i], msg,
                                cmd, data))
            ELSE s,
            i + 1, p, msg, cmd, data)

Broadcast(s, p, msg, cmd, data) == BroadcastFrom(s, 1, p, msg, cmd, data)

\* ------------------------------------------------------------ handlers
\* a frame that ends an execute: success marked WFS_EXECUTE_COMPLETE, or a
\* failure
Completing(msg) ==
    \/ msg.hResult = "WFS_SUCCESS" /\ msg.message = "WFS_EXECUTE_COMPLETE"
    \/ msg.hResult # "WFS_SUCCESS"

\* the lambda connected by the constructor
Classifier(s, p, msg) ==
    IF msg.message = "WFS_SERVICE_EVENT"
    THEN Emit(s, Signal("serviceEventRecieved", p, msg, "", ""))
    ELSE IF msg.message = "WFS_USER_EVENT"
    THEN Emit(s, Signal("userEventRecieved", p, msg, "", ""))
    ELSE IF msg.message = "WFS_SYSTEM_EVENT"
    THEN LET cmd == currentCommand(s.commands, p)
         IN  Emit(s, Signal("systemEventRecieved", p, msg, cmd[1], cmd[2]))
    ELSE s

\* (mutant) the lambda stays connected after the completion
ExecuteHandler_KeepsConnection(s, p, msg, ub) ==
    LET h == s.handlers[p][msg.msgid]
        s1 == Broadcast(s, p, msg, h.dwCommand, h.lpCmdData)
    IN  IF Completing(msg)
        THEN EmitExecuteComplete(done(s1, p, msg.msgid), p, msg, ub)
        ELSE s1

\* the lambda connected by execute(), once msg["msgid"] == msgid
ExecuteHandler(s, p, msg, ub) ==
    LET h == s.handlers[p][msg.msgid]
        d == objectName(p)
        s1 == Broadcast(s, p, msg, h.dwCommand, h.lpCmdData)
        complete ==
            EmitExecuteComplete(
                [done(s1, p, msg.msgid) EXCEPT
                    !.handlers[p] = Remove(@, msg.msgid)],
                p, msg, ub)
    IN  IF msg.hResult = "WFS_SUCCESS"
        THEN IF msg.message # Absent
             THEN IF msg.message = "WFS_EXECUTE_COMPLETE"
                  THEN IF AssertFails(h.dwCommand = msg.dwCommandCode)
                       THEN [s1 EXCEPT !.proc = "aborted"]
                       ELSE complete
                  ELSE IF msg.message = "WFS_EXECUTE_EVENT"
                  THEN Emit(s1, Signal("executeEventRecieved", p, msg, "", ""))
                  ELSE s1
             ELSE IF AssertFails(h.dwCommand = msg.dwCommandCode)
                  THEN [s1 EXCEPT !.proc = "aborted"]
                  ELSE [s1 EXCEPT
                          !.commands = appendCommand(
                              @, p, << h.dwCommand, h.lpCmdData >>),
                          !.acked[d] = IF \E i \in 1 .. Len(@) :
                                              @[i] = msg.msgid
                                       THEN @ ELSE Append(@, msg.msgid)]
        ELSE complete

\* (mutant) a frame that carries a message marker is not taken as the reply
CancelHandler_SkipsMarked(s, p, msg) ==
    IF msg.message # Absent THEN s
    ELSE EmitCancelComplete(
            [done(s, p, msg.msgid) EXCEPT
                !.handlers[p] = Remove(@, msg.msgid)],
            p, msg)

\* the lambda connected by cancel()
CancelHandler(s, p, msg) ==
    EmitCancelComplete(
        [done(s, p, msg.msgid) EXCEPT !.handlers[p] = Remove(@, msg.msgid)],
        p, msg)

\* (mutant) a failure reply ends the wait but is not handed to the caller
InfoSlot_DropsFailure(f, p, msg) ==
    IF f.fn = "getInfo" /\ f.dev = p /\ f.msgid = msg.msgid
    THEN [f EXCEPT !.rv = IF msg.hResult = "WFS_SUCCESS" THEN msg ELSE NoMsg,
                   !.exited = TRUE]
    ELSE f

\* the lambda connected by getInfo() for as long as the call has not returned
InfoSlot(f, p, msg) ==
    IF f.fn = "getInfo" /\ f.dev = p /\ f.msgid = msg.msgid
    THEN [f EXCEPT !.rv = msg, !.exited = TRUE]
    ELSE f

GetInfoHandler(s, p, msg) ==
    LET h == s.handlers[p][msg.msgid]
        finish(t) ==
            [done(t, p, msg.msgid) EXCEPT
                !.hres[msg.msgid] = msg.hResult,
                !.stack = [i \in 1 .. Len(t.stack) |->
                              InfoSlot(t.stack[i], p, msg)]]
    IN  IF msg.hResult = "WFS_SUCCESS"
        THEN IF AssertFails(msg.message = Absent
                            \/ msg.message = "WFS_GETINFO_COMPLETE")
             THEN [s EXCEPT !.proc = "aborted"]
             ELSE IF msg.message = Absent THEN s
             ELSE finish(s)
        ELSE finish(Emit(s, Signal("qWarning", p, msg, h.dwCommand, "")))

\* emit message(msg) on p: the classifier, then the one lambda, if any,
\* whose msgid the message carries
EmitMessage(s, p, msg, ub) ==
    IF s.proc # "running" THEN s
    ELSE LET s1 == Classifier(s, p, msg)
         IN  IF ~Has(s1.handlers[p], msg.msgid) THEN s1
             ELSE LET k == s1.handlers[p][msg.msgid].kind
                  IN  CASE k = "execute" -> ExecuteHandler(s1, p, msg, ub)
                        [] k = "cancel" -> CancelHandler(s1, p, msg)
                        [] OTHER -> GetInfoHandler(s1, p, msg)

RECURSIVE EmitAll(_, _, _, _)
EmitAll(s, p, msgs, ub) ==
    IF msgs = << >> THEN s
    ELSE EmitAll(EmitMessage(s, p, Head(msgs), ub), p, Tail(msgs), ub)

\* ------------------------------------------------------------ transport
UB == {"crash", "benign"}       \* what undefined behaviour may turn out as

\* connectToServer(m_io).  ok is whether a blocking connect, when one is
\* made, succeeds.  With a null m_io the static_cast'ed pointer is
\* dereferenced: undefined behaviour.
\* (mutant) the warning is logged at every failed attempt
connectToServer_WarnsAlways(p, ok, ub) ==
    LET sock == createSocket(addr[p])
        on == objectName(p)
    IN  IF (sock.io /\ conn[p]) \/ ok
        THEN [ok |-> TRUE, conn |-> [conn EXCEPT ![p] = TRUE],
              warnOnce |-> warnOnce, nWarn |-> nWarn, crash |-> FALSE]
        ELSE [ok |-> FALSE, conn |-> conn, warnOnce |-> warnOnce \cup {on},
              nWarn |-> [nWarn EXCEPT ![on] = @ + 1], crash |-> FALSE]

connectToServer(p, ok, ub) ==
    LET sock == createSocket(addr[p])
        on == objectName(p)
        res(r, c, w, n, crash) ==
            [ok |-> r, conn |-> c, warnOnce |-> w, nWarn |-> n,
             crash |-> crash]
        conn_err ==
            res(FALSE, conn, warnOnce \cup {on},
                IF on \in warnOnce THEN nWarn
                ELSE [nWarn EXCEPT ![on] = @ + 1],
                FALSE)
    IN  IF ~sock.io
        THEN IF ub = "crash" THEN res(FALSE, conn, warnOnce, nWarn, TRUE)
             ELSE IF ok THEN res(TRUE, conn, warnOnce, nWarn, FALSE)
             ELSE conn_err
        ELSE IF conn[p] THEN res(TRUE, conn, warnOnce, nWarn, FALSE)
        ELSE IF ok
        THEN res(TRUE, [conn EXCEPT ![p] = TRUE], warnOnce, nWarn, FALSE)
        ELSE conn_err

UBOfConnect(p) == IF createSocket(addr[p]).io THEN {"benign"} ELSE UB

\* QUuid::createUuid()
createUuid == IF uuids # << >> THEN Head(uuids) ELSE NoId

Write(p, function, id, cmd, data) ==
    Signal(function, p, Msg(id, Absent, Absent, Absent, None), cmd, data)

Frame(fn, caller, p, id, req) ==
    [fn |-> fn, caller |-> caller, dev |-> p, msgid |-> id,
     reqMsgId |-> req, finish |-> req = NoId /\ fn = "syncCancel",
     exited |-> FALSE, rv |-> NoMsg, c1 |-> fn = "syncCancel",
     c2 |-> fn = "syncCancel", sawExec |-> FALSE, gone |-> FALSE]

Handler(kind, cmd, data) ==
    [kind |-> kind, dwCommand |-> cmd, lpCmdData |-> data]

Issue(function, p, cmd, data, target) ==
    [fn |-> function, dev |-> p, dwCommand |-> cmd, lpCmdData |-> data,
     target |-> target]

\* (mutant) the frame is written whether or not the connection was made
send_Unconditional(p, function, dwCommand, lpCmdData, c) ==
    LET id == createUuid
    IN  [msgid |-> id,
         m_pending |-> [m_pending EXCEPT ![p] = Put(@, id, dwCommand)],
         out |-> << Write(p, function, id, dwCommand, lpCmdData) >>,
         uuids |-> IF uuids # << >> THEN Tail(uuids) ELSE uuids,
         issued |-> issued]

\* send(): the id it returns (NoId when the connection cannot be made) and
\* what it leaves behind
send(p, function, dwCommand, lpCmdData, c) ==
    IF ~c.ok
    THEN [msgid |-> NoId, m_pending |-> m_pending, out |-> << >>,
          uuids |-> uuids, issued |-> issued]
    ELSE LET id == createUuid
         IN  [msgid |-> id,
              m_pending |-> [m_pending EXCEPT ![p] = Put(@, id, dwCommand)],
              out |-> << Write(p, function, id, dwCommand, lpCmdData) >>,
              uuids |-> Tail(uuids),
              issued |-> [issued EXCEPT ![id] =
                            Issue(function, p, dwCommand, lpCmdData, NoId)]]

\* ------------------------------------------------------------ operations
Running == proc = "running"

\* what a connectToServer call leaves in the transport variables
Connected(c) ==
    /\ c.ok => uuids # << >>
    /\ proc' = IF c.crash THEN "crashed" ELSE proc
    /\ conn' = c.conn
    /\ warnOnce' = c.warnOnce
    /\ nWarn' = c.nWarn

Returns(c, r) == ret' = IF c.crash THEN NoRet ELSE r

\* QXfsStream::execute; ok is the outcome of a blocking connect
Execute(p, dwCommand, lpCmdData, ok) ==
    /\ Running /\ Live(p)
    /\ \E ub \in UBOfConnect(p) :
          LET c == connectToServer(p, ok, ub)
              s == send(p, "WFSExecute", dwCommand, lpCmdData, c)
          IN  /\ Connected(c)
              /\ m_pending' = s.m_pending
              /\ uuids' = s.uuids
              /\ issued' = s.issued
              /\ out' = s.out
              /\ handlers' =
                    IF s.msgid = NoId THEN handlers
                    ELSE [handlers EXCEPT ![p] =
                            Put(@, s.msgid, Handler("execute", dwCommand,
                                                    lpCmdData))]
              /\ Returns(c, Ret("execute", p, s.msgid, s.msgid # NoId,
                                NoMsg, {}))
    /\ UNCHANGED << build, m_io, wire, devices, addr, stale, commands, m_capabilities,
                    capLock, stack, nComplete, acked, hres, nQuery >>

\* QXfsStream::cancel: the id it returns and what it leaves behind
cancel(p, reqMsgId, c) ==
    IF ~c.ok
    THEN [msgid |-> NoId, m_pending |-> m_pending, handlers |-> handlers,
          out |-> << >>, uuids |-> uuids, issued |-> issued]
    ELSE LET id == createUuid
         IN  [msgid |-> id,
              m_pending |-> [m_pending EXCEPT ![p] = Put(@, id, "")],
              handlers |-> [handlers EXCEPT ![p] =
                              Put(@, id, Handler("cancel", "", ""))],
              out |-> << Write(p, "WFSCancel", id, "", "") >>,
              uuids |-> Tail(uuids),
              issued |-> [issued EXCEPT ![id] =
                            Issue("WFSCancel", p, "", "", reqMsgId)]]

Cancel(p, reqMsgId, ok) ==
    /\ Running /\ Live(p)
    /\ \E ub \in UBOfConnect(p) :
          LET c == connectToServer(p, ok, ub)
              s == cancel(p, reqMsgId, c)
          IN  /\ Connected(c)
              /\ m_pending' = s.m_pending
              /\ handlers' = s.handlers
              /\ uuids' = s.uuids
              /\ issued' = s.issued
              /\ out' = s.out
              /\ Returns(c, Ret("cancel", p, s.msgid, s.msgid # NoId,
                                NoMsg, {}))
    /\ UNCHANGED << build, m_io, wire, devices, addr, stale, commands, m_capabilities,
                    capLock, stack, nComplete, acked, hres, nQuery >>

\* QXfsStream::syncCancel up to loop.exec()
SyncCancel(p, reqMsgId, ok) ==
    /\ Running /\ Live(p) /\ Len(stack) < MaxDepth
    /\ \E ub \in UBOfConnect(p) :
          LET c == connectToServer(p, ok, ub)
              s == cancel(p, reqMsgId, c)
          IN  /\ Connected(c)
              /\ m_pending' = s.m_pending
              /\ handlers' = s.handlers
              /\ uuids' = s.uuids
              /\ issued' = s.issued
              /\ out' = s.out
              /\ IF s.msgid = NoId
                 THEN /\ stack' = stack
                      /\ Returns(c, Ret("syncCancel", p, NoId, FALSE,
                                        NoMsg, {}))
                 ELSE /\ stack' = Append(stack,
                            Frame("syncCancel", "syncCancel", p, s.msgid,
                                  reqMsgId))
                      /\ ret' = NoRet
    /\ UNCHANGED << build, m_io, wire, devices, addr, stale, commands, m_capabilities,
                    capLock, nComplete, acked, hres, nQuery >>

\* QXfsStream::getInfo up to loop.exec(), on behalf of caller
getInfo(p, category, caller, c) ==
    LET s == send(p, "WFSGetInfo", category, "none", c)
    IN  /\ Connected(c)
        /\ m_pending' = s.m_pending
        /\ uuids' = s.uuids
        /\ issued' = s.issued
        /\ out' = s.out
        /\ IF s.msgid = NoId
           THEN /\ stack' = stack
                /\ handlers' = handlers
                /\ Returns(c, Ret(caller, p, NoId, FALSE, NoMsg,
                                  IF caller = "capabilities"
                                  THEN m_capabilities[objectName(p)]
                                  ELSE {}))
           ELSE /\ stack' = Append(stack, Frame("getInfo", caller, p,
                                                s.msgid, NoId))
                /\ handlers' = [handlers EXCEPT ![p] =
                                  Put(@, s.msgid, Handler("getInfo",
                                                          category, "none"))]
                /\ ret' = NoRet
        /\ capLock' = (capLock \/ (caller = "capabilities"
                                   /\ s.msgid # NoId))
        /\ nQuery' = IF caller = "capabilities" /\ s.msgid # NoId
                     THEN [nQuery EXCEPT ![objectName(p)] = @ + 1]
                     ELSE nQuery

GetInfo(p, category, ok) ==
    /\ Running /\ Live(p) /\ Len(stack) < MaxDepth
    /\ \E ub \in UBOfConnect(p) :
          getInfo(p, category, "getInfo", connectToServer(p, ok, ub))
    /\ UNCHANGED << build, m_io, wire, devices, addr, stale, commands, m_capabilities,
                    nComplete, acked, hres >>

\* QXfsStream::status / getStatus
Status(p, ok) ==
    /\ Running /\ Live(p) /\ Len(stack) < MaxDepth
    /\ \E ub \in UBOfConnect(p) :
          getInfo(p, m_statusCategory(p), "status",
                  connectToServer(p, ok, ub))
    /\ UNCHANGED << build, m_io, wire, devices, addr, stale, commands, m_capabilities,
                    nComplete, acked, hres >>

\* (mutant) the cached map is not looked at
Capabilities_AlwaysQueries(p, ok) ==
    /\ Running /\ Live(p) /\ ~capLock /\ Len(stack) < MaxDepth
    /\ \E ub \in UBOfConnect(p) :
          getInfo(p, m_capabilitiesCategory(p), "capabilities",
                  connectToServer(p, ok, ub))
    /\ UNCHANGED << build, m_io, wire, devices, addr, stale, commands, m_capabilities,
                    nComplete, acked, hres >>

\* QXfsStream::capabilities up to the loop.exec() of getCapabilities
Capabilities(p, ok) ==
    /\ Running /\ Live(p)
    /\ IF capLock
       THEN \* the thread locks a non-recursive mutex it already holds
            /\ proc' = "deadlocked"
            /\ out' = << >>
            /\ ret' = NoRet
            /\ UNCHANGED << conn, warnOnce, nWarn, m_pending, uuids, issued,
                            stack, handlers, capLock, nQuery >>
       ELSE IF m_capabilities[objectName(p)] # {}
       THEN /\ out' = << >>
            /\ ret' = Ret("capabilities", p, NoId, TRUE, NoMsg,
                          m_capabilities[objectName(p)])
            /\ UNCHANGED << proc, conn, warnOnce, nWarn, m_pending, uuids,
                            issued, stack, handlers, capLock, nQuery >>
       ELSE /\ Len(stack) < MaxDepth
            /\ \E ub \in UBOfConnect(p) :
                  getInfo(p, m_capabilitiesCategory(p), "capabilities",
                          connectToServer(p, ok, ub))
    /\ UNCHANGED << build, m_io, wire, devices, addr, stale, commands, m_capabilities,
                    nComplete, acked, hres >>

\* ------------------------------------------------------------ dispatch
\* what a dispatch leaves in the variables it may change
Dispatched(s) ==
    /\ m_pending' = s.m_pending
    /\ handlers' = s.handlers
    /\ commands' = s.commands
    /\ stack' = s.stack
    /\ out' = s.out
    /\ nComplete' = s.nComplete
    /\ acked' = s.acked
    /\ hres' = s.hres
    /\ proc' = s.proc

UBOf(p) ==
    IF \A e \in stale[p] : e.id = NoId THEN {"benign"}
    ELSE UB \cup {"reuse"}

\* QXfsStream::readyRead with one complete frame, one of F, in the socket
ReadyRead(p, F) ==
    /\ Running /\ Live(p) /\ conn[p]
    /\ \E msg \in F, ub \in UBOf(p) :
          LET s == EmitMessage(Cur, p, msg, ub)
          IN  /\ \A d \in Identities : Len(s.commands[d]) <= MaxQueue
              /\ Dispatched(s)
    /\ ret' = NoRet
    /\ UNCHANGED << build, m_io, wire, devices, addr, conn, stale, m_capabilities,
                    capLock, warnOnce, uuids, issued, nWarn, nQuery >>

\* ---- the byte stream under readyRead
\* A QVariantMap goes over the wire as the count of its entries followed by
\* its entries, one key and value each (QDataStream, big endian).  A unit of
\* the stream is either the count or one entry; an entry is written as the
\* map that holds just that key.
CountUnit(n) == [count |-> n, part |-> NoMsg]
EntryUnit(m) == [count |-> 0, part |-> m]
Entries(msg) ==
    (IF msg.msgid = NoId THEN << >>
     ELSE << EntryUnit([NoMsg EXCEPT !.msgid = msg.msgid]) >>)
    \o (IF msg.hResult = Absent THEN << >>
        ELSE << EntryUnit([NoMsg EXCEPT !.hResult = msg.hResult]) >>)
    \o (IF msg.message = Absent THEN << >>
        ELSE << EntryUnit([NoMsg EXCEPT !.message = msg.message]) >>)
    \o (IF msg.dwCommandCode = Absent THEN << >>
        ELSE << EntryUnit([NoMsg EXCEPT
                              !.dwCommandCode = msg.dwCommandCode]) >>)
    \o (IF msg.lpBuffer = None THEN << >>
        ELSE << EntryUnit([NoMsg EXCEPT !.lpBuffer = msg.lpBuffer]) >>)

\* ds << msg
Encode(msg) == << CountUnit(Len(Entries(msg))) >> \o Entries(msg)

RECURSIVE EncodeAll(_)
EncodeAll(msgs) ==
    IF msgs = << >> THEN << >>
    ELSE Encode(Head(msgs)) \o EncodeAll(Tail(msgs))

\* inserting one entry into the map being read
Insert(msg, e) ==
    [msgid |-> IF e.msgid # NoId THEN e.msgid ELSE msg.msgid,
     hResult |-> IF e.hResult # Absent THEN e.hResult ELSE msg.hResult,
     message |-> IF e.message # Absent THEN e.message ELSE msg.message,
     dwCommandCode |-> IF e.dwCommandCode # Absent THEN e.dwCommandCode
                       ELSE msg.dwCommandCode,
     lpBuffer |-> IF e.lpBuffer # None THEN e.lpBuffer ELSE msg.lpBuffer]

RECURSIVE Decode(_, _)
Decode(msg, units) ==
    IF units = << >> THEN msg
    ELSE Decode(Insert(msg, Head(units).part), Tail(units))

\* One turn of the loop of readyRead over the bytes buf available in m_io:
\* startTransaction, ds >> msg, commitTransaction.  The transaction commits
\* when the whole map was there, and the bytes of the map are consumed;
\* otherwise it rolls back and the device keeps every byte.
ReadTransaction(buf) ==
    IF buf = << >> \/ Len(buf) < 1 + Head(buf).count
    THEN [commit |-> FALSE, msg |-> NoMsg, rest |-> buf]
    ELSE [commit |-> TRUE,
          msg |-> Decode(NoMsg, SubSeq(buf, 2, 1 + Head(buf).count)),
          rest |-> SubSeq(buf, 2 + Head(buf).count, Len(buf))]

\* (mutant) readyRead reads one map and returns
RECURSIVE readLoop_OneFrame(_)
readLoop_OneFrame(buf) ==
    LET t == ReadTransaction(buf)
    IN  IF ~t.commit THEN [msgs |-> << >>, rest |-> t.rest]
        ELSE [msgs |-> << t.msg >>, rest |-> t.rest]

\* The loop of readyRead: the maps it emits message for, in order, and the
\* bytes it leaves in the device when a transaction fails to commit.
RECURSIVE readLoop(_)
readLoop(buf) ==
    LET t == ReadTransaction(buf)
    IN  IF ~t.commit THEN [msgs |-> << >>, rest |-> t.rest]
        ELSE LET r == readLoop(t.rest)
             IN  [msgs |-> << t.msg >> \o r.msgs, rest |-> r.rest]

\* the backend writes one frame to its end of the connection
BackendWrite(p, msg) ==
    /\ Running /\ Live(p) /\ conn[p]
    /\ Len(wire[p].sent) < MaxSent
    /\ m_io' = [m_io EXCEPT ![p].inflight = @ \o Encode(msg)]
    /\ wire' = [wire EXCEPT ![p].sent = Append(@, msg)]
    /\ out' = << >>
    /\ ret' = NoRet
    /\ UNCHANGED << build, proc, devices, addr, conn, m_pending, handlers,
                    stale, commands, m_capabilities, capLock, warnOnce,
                    uuids, stack, issued, nComplete, acked, hres, nWarn,
                    nQuery >>

\* QXfsStream::readyRead: the next n units of the stream, for any n, have
\* arrived and the device notifies the proxy
Deliver(p) ==
    /\ Running /\ Live(p) /\ conn[p]
    /\ \E n \in 1 .. Len(m_io[p].inflight), ub \in UBOf(p) :
          LET in == m_io[p].inflight
              r == readLoop(m_io[p].avail \o SubSeq(in, 1, n))
              s == EmitAll(Cur, p, r.msgs, ub)
          IN  /\ \A d \in Identities : Len(s.commands[d]) <= MaxQueue
              /\ m_io' = [m_io EXCEPT
                            ![p] = [inflight |-> SubSeq(in, n + 1, Len(in)),
                                    avail |-> r.rest]]
              /\ wire' = [wire EXCEPT ![p].got = @ \o r.msgs]
              /\ Dispatched(s)
    /\ ret' = NoRet
    /\ UNCHANGED << build, devices, addr, conn, stale, m_capabilities,
                    capLock, warnOnce, uuids, issued, nWarn, nQuery >>

\* (mutant) the copy is walked from its last key to its first
lostMessages_Descending(snapshot) ==
    LET keys == SortedSeq(DOMAIN snapshot)
        n == Len(keys)
    IN  [i \in 1 .. n |->
            Msg(keys[n + 1 - i], "WFS_ERR_CONNECTION_LOST", Absent,
                snapshot[keys[n + 1 - i]], None)]

\* the messages QXfsSocketStream::disconnected synthesizes from its copy of
\* the pending map, in the order of the map's keys
lostMessages(snapshot) ==
    LET keys == SortedSeq(DOMAIN snapshot)
    IN  [i \in 1 .. Len(keys) |->
            Msg(keys[i], "WFS_ERR_CONNECTION_LOST", Absent,
                snapshot[keys[i]], None)]

\* the socket's disconnected() signal
Disconnected(p) ==
    /\ Running /\ Live(p) /\ conn[p]
    /\ conn' = [conn EXCEPT ![p] = FALSE]
    /\ \E ub \in UBOf(p) :
          Dispatched(EmitAll(Cur, p, lostMessages(m_pending[p]), ub))
    /\ ret' = NoRet
    /\ UNCHANGED << build, m_io, wire, devices, addr, stale, m_capabilities, capLock,
                    warnOnce, uuids, issued, nWarn, nQuery >>

\* the connect started by createSocket completes in the background
ConnectionEstablished(p) ==
    /\ Running /\ Live(p) /\ createSocket(addr[p]).io /\ ~conn[p]
    /\ conn' = [conn EXCEPT ![p] = TRUE]
    /\ out' = << >>
    /\ ret' = NoRet
    /\ UNCHANGED << build, m_io, wire, proc, devices, addr, m_pending, handlers, stale,
                    commands, m_capabilities, capLock, warnOnce, uuids,
                    stack, issued, nComplete, acked, hres, nWarn, nQuery >>

\* ------------------------------------------------------------ returns
toMap(buf) == IF buf = None THEN {} ELSE buf[1]

\* getCapabilities, given what getInfo returned
getCapabilities(cache, p, data) ==
    IF data.lpBuffer # None
    THEN [cache EXCEPT ![objectName(p)] = toMap(data.lpBuffer)]
    ELSE cache

\* getStatus, given what getInfo returned
getStatus(data) == toMap(data.lpBuffer)

\* the value syncCancel returns once its loop has been left
syncCancelResult(f) == TRUE

\* the innermost blocked call leaves loop.exec() and runs to its end
Return ==
    /\ Running /\ stack # << >>
    /\ LET f == stack[Len(stack)]
           p == f.dev
       IN  /\ f.exited
           /\ stack' = SubSeq(stack, 1, Len(stack) - 1)
           /\ out' = << >>
           /\ IF f.fn = "syncCancel"
              THEN /\ ret' = Ret("syncCancel", p, f.msgid,
                                 syncCancelResult(f), NoMsg, {})
                   /\ stale' = IF f.c2 /\ ~f.gone
                               THEN [stale EXCEPT ![p] = @ \cup
                                       {[id |-> f.reqMsgId,
                                         depth |-> Len(stack)]}]
                               ELSE stale
                   /\ UNCHANGED << proc, handlers, m_capabilities, capLock >>
              ELSE /\ handlers' = IF f.gone THEN handlers
                                  ELSE [handlers EXCEPT ![p] =
                                          Remove(@, f.msgid)]
                   /\ stale' = stale
                   /\ IF f.caller = "capabilities"
                      THEN \E ub \in IF f.gone THEN UB ELSE {"benign"} :
                              IF ub = "crash"
                              THEN /\ proc' = "crashed"
                                   /\ ret' = NoRet
                                   /\ UNCHANGED << m_capabilities, capLock >>
                              ELSE /\ m_capabilities' =
                                        getCapabilities(m_capabilities, p,
                                                        f.rv)
                                   /\ ret' = Ret("capabilities", p, f.msgid,
                                              TRUE, NoMsg,
                                              m_capabilities'[objectName(p)])
                                   /\ capLock' = FALSE
                                   /\ proc' = proc
                      ELSE /\ ret' = IF f.caller = "status"
                                     THEN Ret("status", p, f.msgid, TRUE,
                                              NoMsg, getStatus(f.rv))
                                     ELSE Ret("getInfo", p, f.msgid, TRUE,
                                              f.rv, {})
                           /\ UNCHANGED << proc, m_capabilities, capLock >>
    /\ UNCHANGED << build, m_io, wire, devices, addr, conn, m_pending, commands,
                    warnOnce, uuids, issued, nComplete, acked, hres, nWarn,
                    nQuery >>

\* ------------------------------------------------------------ lifetime
\* QXfsSocketStream::QXfsSocketStream, through the base constructor
Construct(p, a) ==
    /\ Running /\ ~Live(p)
    /\ LET sock == createSocket(a)
       IN  /\ out' = IF sock.io THEN << >>
                     ELSE << Signal("qCritical", p, NoMsg, "", "") >>
           /\ IF AssertFails(sock.io)
              THEN /\ proc' = "aborted"
                   /\ UNCHANGED << devices, addr >>
              ELSE /\ proc' = proc
                   /\ devices' = Append(devices, p)
                   /\ addr' = [addr EXCEPT ![p] = a]
    /\ ret' = NoRet
    /\ UNCHANGED << build, m_io, wire, conn, m_pending, handlers, stale, commands,
                    m_capabilities, capLock, warnOnce, uuids, stack, issued,
                    nComplete, acked, hres, nWarn, nQuery >>

\* ~QXfsSocketStream, then ~QXfsStream; the object's connections go with it
Destroy(p) ==
    /\ Running /\ Live(p)
    /\ \E ub \in IF createSocket(addr[p]).m_socket THEN {"benign"} ELSE UB :
          IF ub = "crash"
          THEN /\ proc' = "crashed"
               /\ UNCHANGED << devices, addr, conn, m_pending, handlers,
                               stale, stack >>
          ELSE /\ proc' = proc
               /\ devices' = SeqWithout(devices, p)
               /\ addr' = [addr EXCEPT ![p] = NoAddr]
               /\ conn' = [conn EXCEPT ![p] = FALSE]
               /\ m_pending' = [m_pending EXCEPT ![p] = EmptyMap]
               /\ handlers' = [handlers EXCEPT ![p] = EmptyMap]
               /\ stale' = [stale EXCEPT ![p] = {}]
               /\ stack' = [i \in 1 .. Len(stack) |->
                              IF stack[i].dev = p
                              THEN [stack[i] EXCEPT !.c1 = FALSE,
                                                    !.c2 = FALSE,
                                                    !.gone = TRUE]
                              ELSE stack[i]]
    /\ out' = << >>
    /\ ret' = NoRet
    /\ UNCHANGED << build, m_io, wire, commands, m_capabilities, capLock, warnOnce,
                    uuids, issued, nComplete, acked, hres, nWarn, nQuery >>

\* A frame for a pending execute of p arrives while a slot connected to
\* executeEventBroadcasted constructs the proxy q (with address a) or, when
\* q exists, destroys it.  The slot runs inside the loop of the lambda, with
\* deviceMutex held; the constructor and the destructor of QXfsStream lock
\* deviceMutex, which is not recursive.
BroadcastSlot(p, F, q, a) ==
    /\ Running /\ Live(p) /\ conn[p]
    /\ \E msg \in F :
          /\ Has(handlers[p], msg.msgid)
          /\ handlers[p][msg.msgid].kind = "execute"
          /\ LET h == handlers[p][msg.msgid]
                 s1 == Classifier(Cur, p, msg)
                 b == Broadcast(s1, p, msg, h.dwCommand, h.lpCmdData)
             IN  out' = SubSeq(b.out, 1, Len(s1.out) + 1)
    /\ IF Live(q)
       THEN \E ub \in IF createSocket(addr[q]).m_socket THEN {"benign"}
                      ELSE UB :
               proc' = IF ub = "crash" THEN "crashed"
                       ELSE IF "deviceMutex" \in
                               LocksHeldAtEmit("executeEventBroadcasted")
                       THEN "deadlocked" ELSE proc
       ELSE proc' = IF AssertFails(createSocket(a).io) THEN "aborted"
                    ELSE IF "deviceMutex" \in
                            LocksHeldAtEmit("executeEventBroadcasted")
                    THEN "deadlocked" ELSE proc
    /\ ret' = NoRet
    /\ UNCHANGED << build, m_io, wire, devices, addr, conn, m_pending,
                    handlers, stale, commands, m_capabilities, capLock,
                    warnOnce, uuids, stack, issued, nComplete, acked, hres,
                    nWarn, nQuery >>

\* ------------------------------------------------------------ specifications
\* the address a proxy constructed before the run begins was given
GoodAddr(p) == CHOOSE a \in AddressesOf(p) : createSocket(a).io

\* the orders in which a set of ids may come out of QUuid::createUuid()
Orders(S) ==
    {s \in [1 .. Cardinality(S) -> S] : \A i, j \in DOMAIN s :
                                            s[i] = s[j] => i = j}

\* The state once the proxies in the list devs have been constructed, for
\* the builds in B and the uuid sequences in U.
InitWith(B, devs, U) ==
    /\ build \in B
    /\ proc = "running"
    /\ devices = devs
    /\ addr = [p \in Proxies |->
                 IF \E i \in 1 .. Len(devs) : devs[i] = p THEN GoodAddr(p)
                 ELSE NoAddr]
    /\ conn = [p \in Proxies |-> FALSE]
    /\ m_pending = [p \in Proxies |-> EmptyMap]
    /\ handlers = [p \in Proxies |-> EmptyMap]
    /\ stale = [p \in Proxies |-> {}]
    /\ commands = [d \in Identities |-> << >>]
    /\ m_capabilities = [d \in Identities |-> {}]
    /\ capLock = FALSE
    /\ warnOnce = {}
    /\ uuids \in U
    /\ stack = << >>
    /\ out = << >>
    /\ ret = NoRet
    /\ issued = [i \in Ids |-> NoIssue]
    /\ nComplete = [i \in Ids |-> 0]
    /\ acked = [d \in Identities |-> << >>]
    /\ hres = [i \in Ids |-> Absent]
    /\ nWarn = [d \in Identities |-> 0]
    /\ nQuery = [d \in Identities |-> 0]
    /\ m_io = [p \in Proxies |-> [inflight |-> << >>, avail |-> << >>]]
    /\ wire = [p \in Proxies |-> [sent |-> << >>, got |-> << >>]]

Builds == {"debug", "release"}

\* Executes on two proxies of one identity, replies and disconnects.
NExecIds == 2
InitExec == InitWith(Builds, << "p1", "p2" >>, Orders(1 .. NExecIds))

NextExec ==
    \/ \E p \in {"p1", "p2"} : \E c \in Commands :
          Execute(p, c, lpCmdDataOf(c), TRUE)
    \/ \E p \in {"p1", "p2"} :
          ReadyRead(p, ExecFrames(1 .. NExecIds)
                       \cup EventFrames(1 .. NExecIds))
    \/ \E p \in {"p1", "p2"} : Disconnected(p)

SpecExec == InitExec /\ [][NextExec]_vars

\* Executes, cancels and a blocking status query on one proxy, their
\* acknowledgements, and disconnects, for every order of the ids.
NLostIds == 3
InitLost == InitWith(Builds, << "p1" >>, Orders(1 .. NLostIds))

NextLost ==
    \/ \E c \in Commands : Execute("p1", c, lpCmdDataOf(c), TRUE)
    \/ \E r \in {NoId} \cup Used : Cancel("p1", r, TRUE)
    \/ Status("p1", TRUE)
    \/ ReadyRead("p1", {Msg(i, "WFS_SUCCESS", Absent, cc, None) :
                           i \in 1 .. NLostIds, cc \in Commands})
    \/ Disconnected("p1")
    \/ Return

SpecLost == InitLost /\ [][NextLost]_vars

\* Executes and blocking cancels on one proxy, the replies to them, and
\* disconnects.
NSyncIds == 3
SyncFrames(I) ==
    {Msg(i, "WFS_SUCCESS", "WFS_EXECUTE_COMPLETE", "EJECT", None) : i \in I}
    \cup {Msg(i, "WFS_SUCCESS", "WFS_CANCEL_COMPLETE", Absent, None) : i \in I}
    \cup {Msg(i, "WFS_ERR_HARDWARE_ERROR", Absent, Absent, None) : i \in I}
\* (no frame of SyncFrames fails a Q_ASSERT, so one build is explored)
InitSync == InitWith({"release"}, << "p1" >>, {[i \in 1 .. NSyncIds |-> i]})

NextSync ==
    \/ Execute("p1", "EJECT", "none", TRUE)
    \/ \E r \in {NoId} \cup {i \in Used : issued[i].fn = "WFSExecute"} :
          \E ok \in BOOLEAN : SyncCancel("p1", r, ok)
    \/ ReadyRead("p1", SyncFrames(1 .. NSyncIds))
    \/ Disconnected("p1")
    \/ Return

SpecSync == InitSync /\ [][NextSync]_vars

\* Three proxies, two of one identity and one of another, that execute,
\* receive replies, lose their connections, and are destroyed and rebuilt.
NCastIds == 2
CastFrames(I) ==
    {Msg(i, "WFS_SUCCESS", "WFS_EXECUTE_COMPLETE", cc, None) :
        i \in I, cc \in Commands}
    \cup {Msg(i, "WFS_ERR_HARDWARE_ERROR", Absent, "EJECT", None) : i \in I}
InitCast ==
    InitWith(Builds, << "p1", "p2", "p3" >>, {[i \in 1 .. NCastIds |-> i]})

NextCast ==
    \/ \E p \in Proxies, c \in Commands : Execute(p, c, lpCmdDataOf(c), TRUE)
    \/ \E p \in Proxies : ReadyRead(p, CastFrames(1 .. NCastIds))
    \/ \E p \in Proxies : Disconnected(p)
    \/ \E p \in Proxies : Destroy(p)
    \/ \E p \in Proxies : Construct(p, GoodAddr(p))

SpecCast == InitCast /\ [][NextCast]_vars

\* Two proxies of one identity that ask for the capabilities, over
\* connections that may fail to open, with every shape of reply.
NCapIds == 2
InitCaps == InitWith(Builds, << "p1", "p2" >>, {[i \in 1 .. NCapIds |-> i]})

NextCaps ==
    \/ \E p \in {"p1", "p2"}, ok \in BOOLEAN : Capabilities(p, ok)
    \/ \E p \in {"p1", "p2"} : ReadyRead(p, InfoFrames(1 .. NCapIds))
    \/ \E p \in {"p1", "p2"} : Disconnected(p)
    \/ Return

SpecCaps == InitCaps /\ [][NextCaps]_vars

\* One proxy whose connection may fail to open each time an operation
\* needs it, and may be lost.
NConnIds == 2
Ops == {"execute", "cancel", "syncCancel", "getInfo"}
InitConn == InitWith(Builds, << "p1" >>, {[i \in 1 .. NConnIds |-> i]})

NextConn ==
    \/ \E c \in Commands, ok \in BOOLEAN :
          Execute("p1", c, lpCmdDataOf(c), ok)
    \/ \E r \in {NoId} \cup Used, ok \in BOOLEAN : Cancel("p1", r, ok)
    \/ \E r \in {NoId} \cup Used, ok \in BOOLEAN : SyncCancel("p1", r, ok)
    \/ \E ok \in BOOLEAN : GetInfo("p1", m_statusCategory("p1"), ok)
    \/ ReadyRead("p1", ExecFrames(1 .. NConnIds))
    \/ Disconnected("p1")
    \/ Return

SpecConn == InitConn /\ [][NextConn]_vars

\* One proxy that queries by category and asks for its status, with every
\* shape of reply, a reply with a marker that is not the completion marker
\* among them.
NInfoIds == 2
InitInfo == InitWith(Builds, << "p1" >>, {[i \in 1 .. NInfoIds |-> i]})

NextInfo ==
    \/ \E ok \in BOOLEAN : GetInfo("p1", "counters", ok)
    \/ \E ok \in BOOLEAN : Status("p1", ok)
    \/ ReadyRead("p1",
          InfoFrames(1 .. NInfoIds)
          \cup {Msg(i, "WFS_SUCCESS", "WFS_EXECUTE_EVENT", Absent, None) :
                  i \in 1 .. NInfoIds})
    \/ Disconnected("p1")
    \/ Return

SpecInfo == InitInfo /\ [][NextInfo]_vars

\* A proxy constructed with any address, well formed or not, then used and
\* destroyed.
NAddrIds == 2
Addresses == UNION {AddressesOf(p) : p \in Proxies}
InitAddr == InitWith(Builds, << >>, {[i \in 1 .. NAddrIds |-> i]})

NextAddr ==
    \/ \E a \in Addresses : Construct("p1", a)
    \/ \E ok \in BOOLEAN : Execute("p1", "EJECT", "none", ok)
    \/ \E ok \in BOOLEAN : Cancel("p1", NoId, ok)
    \/ \E ok \in BOOLEAN : SyncCancel("p1", NoId, ok)
    \/ \E ok \in BOOLEAN : Status("p1", ok)
    \/ ReadyRead("p1", {Msg(i, "WFS_ERR_HARDWARE_ERROR", Absent, Absent, None) :
                          i \in 1 .. NAddrIds})
    \/ Destroy("p1")
    \/ Return

SpecAddr == InitAddr /\ [][NextAddr]_vars

\* Two proxies of one identity that execute, cancel and ask for status,
\* with acknowledgements, completions and system events in any order.
NQueueIds == 2
QueueFrames(I) ==
    {Msg(i, "WFS_SUCCESS", m, "EJECT", None) :
        i \in I, m \in {Absent, "WFS_EXECUTE_COMPLETE", "WFS_GETINFO_COMPLETE"}}
    \cup {Msg(i, "WFS_ERR_HARDWARE_ERROR", Absent, "EJECT", None) : i \in I}
    \cup {Msg(NoId, Absent, "WFS_SYSTEM_EVENT", Absent, None)}
InitQueue ==
    InitWith(Builds, << "p1", "p2" >>, {[i \in 1 .. NQueueIds |-> i]})

NextQueue ==
    \/ \E p \in {"p1", "p2"} : Execute(p, "EJECT", "none", TRUE)
    \/ \E p \in {"p1", "p2"} : Cancel(p, NoId, TRUE)
    \/ \E p \in {"p1", "p2"} : Status(p, TRUE)
    \/ \E p \in {"p1", "p2"} : ReadyRead(p, QueueFrames(1 .. NQueueIds))
    \/ \E p \in {"p1", "p2"} : Disconnected(p)
    \/ Return

SpecQueue == InitQueue /\ [][NextQueue]_vars

\* Two proxies of one identity that execute, are acknowledged and completed,
\* lose their connections, and are destroyed and rebuilt.
NDtorIds == 2
DtorFrames(I) ==
    {Msg(i, "WFS_SUCCESS", m, "EJECT", None) :
        i \in I, m \in {Absent, "WFS_EXECUTE_COMPLETE"}}
    \cup {Msg(i, "WFS_ERR_HARDWARE_ERROR", Absent, "EJECT", None) : i \in I}
InitDtor ==
    InitWith(Builds, << "p1", "p2" >>, {[i \in 1 .. NDtorIds |-> i]})

NextDtor ==
    \/ \E p \in {"p1", "p2"} : Execute(p, "EJECT", "none", TRUE)
    \/ \E p \in {"p1", "p2"} : ReadyRead(p, DtorFrames(1 .. NDtorIds))
    \/ \E p \in {"p1", "p2"} : Disconnected(p)
    \/ \E p \in {"p1", "p2"} : Destroy(p)
    \/ \E p \in {"p1", "p2"} : Construct(p, GoodAddr(p))

SpecDtor == InitDtor /\ [][NextDtor]_vars

\* One proxy with executes outstanding while callers block in getInfo,
\* status, capabilities and syncCancel, and the replies to all of them.
NBlockIds == 3
BlockFrames(I) ==
    {Msg(i, "WFS_SUCCESS", "WFS_EXECUTE_COMPLETE", "EJECT", None) : i \in I}
    \cup {Msg(i, "WFS_SUCCESS", "WFS_GETINFO_COMPLETE", Absent,
              Some({"front"})) : i \in I}
    \cup {Msg(i, "WFS_SUCCESS", "WFS_CANCEL_COMPLETE", Absent, None) : i \in I}
    \cup {Msg(i, "WFS_ERR_HARDWARE_ERROR", Absent, Absent, None) : i \in I}
InitBlock ==
    InitWith({"release"}, << "p1" >>, {[i \in 1 .. NBlockIds |-> i]})

NextBlock ==
    \/ Execute("p1", "EJECT", "none", TRUE)
    \/ \E r \in {NoId} \cup {i \in Used : issued[i].fn = "WFSExecute"} :
          SyncCancel("p1", r, TRUE)
    \/ GetInfo("p1", "counters", TRUE)
    \/ Status("p1", TRUE)
    \/ Capabilities("p1", TRUE)
    \/ ReadyRead("p1", BlockFrames(1 .. NBlockIds))
    \/ Return

SpecBlock == InitBlock /\ [][NextBlock]_vars

\* Three proxies of two identities whose connections open, fail to open,
\* and are lost, in any order.
NWarnIds == 2
InitWarn ==
    InitWith(Builds, << "p1", "p2", "p3" >>, {[i \in 1 .. NWarnIds |-> i]})

NextWarn ==
    \/ \E p \in Proxies, ok \in BOOLEAN : Execute(p, "EJECT", "none", ok)
    \/ \E p \in Proxies, ok \in BOOLEAN : Cancel(p, NoId, ok)
    \/ \E p \in Proxies :
          ReadyRead(p, {Msg(i, "WFS_ERR_HARDWARE_ERROR", Absent, Absent, None) :
                          i \in 1 .. NWarnIds})
    \/ \E p \in Proxies : Disconnected(p)
    \/ \E p \in Proxies : ConnectionEstablished(p)

SpecWarn == InitWarn /\ [][NextWarn]_vars

\* One proxy that executes and cancels, with replies of every shape about
\* every id, frames marked as service events among them.
NCancelIds == 3
CancelFrames(I) ==
    {Msg(i, "WFS_SUCCESS", m, "EJECT", None) :
        i \in I, m \in {Absent, "WFS_EXECUTE_COMPLETE", "WFS_SERVICE_EVENT"}}
    \cup {Msg(i, "WFS_ERR_HARDWARE_ERROR", Absent, "EJECT", None) : i \in I}
InitCancel ==
    InitWith(Builds, << "p1" >>, {[i \in 1 .. NCancelIds |-> i]})

NextCancel ==
    \/ Execute("p1", "EJECT", "none", TRUE)
    \/ \E r \in {NoId} \cup Used : Cancel("p1", r, TRUE)
    \/ ReadyRead("p1", CancelFrames(1 .. NCancelIds))
    \/ Disconnected("p1")

SpecCancel == InitCancel /\ [][NextCancel]_vars

\* ---- one proxy p1 fed through the byte stream: the backend writes up to
\* MaxSent frames and the device hands them over in chunks of any size
NReadIds == 2
ReadFrames(I) ==
    {Msg(i, "WFS_SUCCESS", m, "EJECT", None) :
        i \in I, m \in {Absent, "WFS_EXECUTE_COMPLETE"}}
    \cup {Msg(NoId, Absent, "WFS_SERVICE_EVENT", Absent, None)}
InitRead ==
    InitWith(Builds, << "p1" >>, {[i \in 1 .. NReadIds |-> i]})

NextRead ==
    \/ Execute("p1", "EJECT", "none", TRUE)
    \/ \E msg \in ReadFrames(1 .. NReadIds) : BackendWrite("p1", msg)
    \/ Deliver("p1")

SpecRead == InitRead /\ [][NextRead]_vars

\* ---- one proxy p1 with executes and capability queries, fed through the byte
\* stream with replies that may be repeated or carry ids of nothing pending
NStrayIds == 2
StrayFrames(I) ==
    {Msg(i, "WFS_SUCCESS", Absent, "EJECT", None) : i \in I}
    \cup {Msg(i, "WFS_SUCCESS", "WFS_GETINFO_COMPLETE", Absent,
              Some({"front"})) : i \in I}
    \cup {Msg(i, "WFS_ERR_HARDWARE_ERROR", Absent, Absent, None) : i \in I}
InitStray ==
    InitWith({"release"}, << "p1" >>, {[i \in 1 .. NStrayIds |-> i]})

NextStray ==
    \/ Execute("p1", "EJECT", "none", TRUE)
    \/ Capabilities("p1", TRUE)
    \/ \E msg \in StrayFrames(1 .. NStrayIds) : BackendWrite("p1", msg)
    \/ Deliver("p1")
    \/ Return

SpecStray == InitStray /\ [][NextStray]_vars

\* ---- one proxy p1 with up to three requests of any kind pending at once:
\* completions of every shape, and disconnects
NOtherIds == 3
OtherFrames(I) ==
    {Msg(i, "WFS_SUCCESS", m, "EJECT", None) :
        i \in I, m \in {"WFS_EXECUTE_COMPLETE", "WFS_GETINFO_COMPLETE"}}
    \cup {Msg(i, "WFS_ERR_HARDWARE_ERROR", Absent, "EJECT", None) : i \in I}
InitOther ==
    InitWith(Builds, << "p1" >>, {[i \in 1 .. NOtherIds |-> i]})

NextOther ==
    \/ Execute("p1", "EJECT", "none", TRUE)
    \/ Cancel("p1", NoId, TRUE)
    \/ GetInfo("p1", "counters", TRUE)
    \/ ReadyRead("p1", OtherFrames(1 .. NOtherIds))
    \/ Disconnected("p1")
    \/ Return

SpecOther == InitOther /\ [][NextOther]_vars

\* ---- proxies p1 and p2 constructed (with good and bad addresses) and
\* destroyed while requests are issued, answered and lost
NRegIds == 2
RegFrames(I) ==
    {Msg(i, "WFS_SUCCESS", "WFS_EXECUTE_COMPLETE", "EJECT", None) : i \in I}
    \cup {Msg(i, "WFS_ERR_HARDWARE_ERROR", Absent, Absent, None) : i \in I}
InitReg == InitWith(Builds, << >>, {[i \in 1 .. NRegIds |-> i]})

NextReg ==
    \/ \E p \in {"p1", "p2"} : \E a \in AddressesOf(p) : Construct(p, a)
    \/ \E p \in {"p1", "p2"} : Destroy(p)
    \/ \E p \in {"p1", "p2"} : Execute(p, "EJECT", "none", TRUE)
    \/ \E p \in {"p1", "p2"} : Cancel(p, NoId, TRUE)
    \/ \E p \in {"p1", "p2"} : GetInfo(p, "counters", TRUE)
    \/ \E p \in {"p1", "p2"} : ReadyRead(p, RegFrames(1 .. NRegIds))
    \/ \E p \in {"p1", "p2"} : Disconnected(p)
    \/ Return

SpecReg == InitReg /\ [][NextReg]_vars

\* ---- proxies p1 and p2 of one identity (p2 may not exist yet) with
\* executes, capability queries made at any nesting depth, and a subscriber
\* of the broadcast that constructs or destroys p2
NLockIds == 3
LockFrames(I) ==
    {Msg(i, "WFS_SUCCESS", m, "EJECT", None) :
        i \in I, m \in {Absent, "WFS_EXECUTE_COMPLETE"}}
    \cup {Msg(i, "WFS_SUCCESS", "WFS_GETINFO_COMPLETE", Absent, buf) :
            i \in I, buf \in {Some({}), Some({"front"})}}
InitLock ==
    InitWith(Builds, << "p1" >>, {[i \in 1 .. NLockIds |-> i]})

NextLock ==
    \/ Execute("p1", "EJECT", "none", TRUE)
    \/ \E p \in {"p1", "p2"} : Capabilities(p, TRUE)
    \/ ReadyRead("p1", LockFrames(1 .. NLockIds))
    \/ BroadcastSlot("p1", LockFrames(1 .. NLockIds), "p2", GoodAddr("p2"))
    \/ Construct("p2", GoodAddr("p2"))
    \/ Destroy("p2")
    \/ Return

SpecLock == InitLock /\ [][NextLock]_vars

\* ---- proxies p1 and p2 of one identity: executes on either, syncCancel on
\* p1 aimed at any id (pending, completed, never minted, or minted by p2).
\* The backend eventually answers every request that is pending on p1 with
\* a frame that completes it, and an event loop that was told to exit
\* returns.
NWaitIds == 2
WaitFrames(I) ==
    {Msg(i, "WFS_SUCCESS", "WFS_EXECUTE_COMPLETE", "EJECT", None) : i \in I}
    \cup {Msg(i, "WFS_SUCCESS", "WFS_CANCEL_COMPLETE", Absent, None) : i \in I}
    \cup {Msg(i, "WFS_ERR_HARDWARE_ERROR", Absent, Absent, None) : i \in I}
\* the frames that complete a request pending on p
Answers(p) ==
    {m \in WaitFrames(DOMAIN m_pending[p]) :
        issued[m.msgid].fn = "WFSExecute" => Completing(m)}

InitWait ==
    InitWith({"release"}, << "p1", "p2" >>, {[i \in 1 .. NWaitIds |-> i]})

NextWait ==
    \/ \E p \in {"p1", "p2"} : Execute(p, "EJECT", "none", TRUE)
    \/ \E r \in {NoId} \cup (1 .. NWaitIds) : SyncCancel("p1", r, TRUE)
    \/ \E p \in {"p1", "p2"} : ReadyRead(p, WaitFrames(1 .. NWaitIds))
    \/ Disconnected("p1")
    \/ Return

SpecWait ==
    /\ InitWait /\ [][NextWait]_vars
    /\ WF_vars(ReadyRead("p1", Answers("p1")))
    /\ WF_vars(Return)

\* ------------------------------------------------------------ claims
\* how many times the last step emitted signal sig on p about id i
Count(o, sig, p, i) ==
    Cardinality({k \in DOMAIN o : o[k].sig = sig /\ o[k].dev = p
                                  /\ o[k].msg.msgid = i})
Emitted(o, sig, p, msg) ==
    \E k \in DOMAIN o : o[k].sig = sig /\ o[k].dev = p /\ o[k].msg = msg
IsExecute(i, p) == issued[i].fn = "WFSExecute" /\ issued[i].dev = p

\* the frames about id i that the execute lambda of p accepted in the last
\* step: each is broadcast to the issuer itself before anything else
Accepted(p, i) ==
    {out[k].msg : k \in {j \in DOMAIN out :
                            /\ out[j].sig = "executeEventBroadcasted"
                            /\ out[j].dev = p
                            /\ out[j].msg.msgid = i}}

\* C1: for every id execute() returned, executeComplete is emitted for that
\* id at most once, on the issuing proxy only (a duplicate or late frame
\* emits nothing); the id stays pending, with its lambda connected, until
\* then; and the step in which that lambda accepts a completing frame
\* (success marked WFS_EXECUTE_COMPLETE, or a non-success hResult, from the
\* backend or synthesized by a disconnect) emits it exactly once, carrying
\* that frame, and leaves the id out of the pending set.  (A debug build
\* stops at Q_ASSERT when a success frame echoes another command code; the
\* statement is about the steps the process survives.)
C1_ExecuteCompleteOnce ==
    \A i \in Ids :
        issued[i].fn = "WFSExecute" =>
            LET p == issued[i].dev
                n == Count(out, "executeComplete", p, i)
            IN  /\ nComplete[i] <= 1
                /\ n <= nComplete[i]
                /\ \A q \in Proxies \ {p} :
                      Count(out, "executeComplete", q, i) = 0
                /\ Has(m_pending[p], i) <=> nComplete[i] = 0
                /\ Has(m_pending[p], i) =>
                      /\ Has(handlers[p], i)
                      /\ handlers[p][i].kind = "execute"
                /\ n = 1 => \E msg \in Accepted(p, i) :
                               /\ Completing(msg)
                               /\ Emitted(out, "executeComplete", p, msg)
                /\ proc = "running" =>
                      \A msg \in Accepted(p, i) :
                          Completing(msg) =>
                              /\ n = 1
                              /\ Emitted(out, "executeComplete", p, msg)
                              /\ ~Has(m_pending[p], i)

\* an execute completed by a success frame marked WFS_EXECUTE_COMPLETE
C1_Witness ==
    \E p \in Proxies, i \in Ids :
        /\ IsExecute(i, p)
        /\ nComplete[i] = 1
        /\ hres[i] = "WFS_SUCCESS"
        /\ Count(out, "executeComplete", p, i) = 1
        /\ ~Has(m_pending[p], i)

\* the completions among the signals of a step: executeComplete,
\* cancelComplete, and the warning getInfo logs before it hands the failure
\* to its blocked caller
Completions(o) ==
    SelectSeq(o, LAMBDA e :
        e.sig \in {"executeComplete", "cancelComplete", "qWarning"})

CompletionOf(fn) ==
    CASE fn = "WFSExecute" -> "executeComplete"
      [] fn = "WFSCancel" -> "cancelComplete"
      [] OTHER -> "qWarning"

Top == stack[Len(stack)]

\* C3: a syncCancel with a target id returns only after the reply to its
\* cancel id and the executeComplete of the target id have both been seen
\* while it was blocked (in either order), unless the cancel reply is a
\* failure; and once the cancel reply has arrived, a call without a target,
\* or one whose cancel failed, has had its loop told to exit.
C3_SyncCancelWaitsForBoth ==
    /\ [][(stack # << >> /\ stack' = SubSeq(stack, 1, Len(stack) - 1)
            /\ Top.fn = "syncCancel")
          => /\ ~Top.c1
             /\ nComplete[Top.msgid] = 1
             /\ (Top.reqMsgId # NoId /\ hres[Top.msgid] = "WFS_SUCCESS")
                   => Top.sawExec]_vars
    /\ [](\A n \in 1 .. Len(stack) :
             LET f == stack[n]
             IN  (f.fn = "syncCancel" /\ ~f.c1
                  /\ (f.reqMsgId = NoId \/ hres[f.msgid] # "WFS_SUCCESS"))
                     => f.exited)

\* how many times signal e is in o
Times(o, e) == Cardinality({k \in 1 .. Len(o) : o[k] = e})

\* C4: whenever an execute issued on proxy p completes (executeComplete is
\* emitted on p, for a success, a failure or a synthesized connection loss),
\* the same step delivers executeEventBroadcasted, with the completion
\* message and the command code and payload the execute was issued with,
\* once to every live proxy of p's identity, p included, and delivers no
\* executeEventBroadcasted to a proxy of another identity or to one that is
\* not live.
C4_BroadcastToIdentity ==
    \A k \in 1 .. Len(out) :
        out[k].sig = "executeComplete" =>
            LET p == out[k].dev
                msg == out[k].msg
                i == msg.msgid
                cast(q) == Signal("executeEventBroadcasted", q, msg,
                                  issued[i].dwCommand, issued[i].lpCmdData)
            IN  /\ issued[i].fn = "WFSExecute" /\ issued[i].dev = p
                /\ \A q \in Proxies :
                      IF Live(q) /\ objectName(q) = objectName(p)
                      THEN Times(out, cast(q)) = 1
                      ELSE \A j \in 1 .. Len(out) :
                              ~(/\ out[j].sig = "executeEventBroadcasted"
                                /\ out[j].dev = q)

\* an execute issued on p2 completed while p1 (same identity) and p3 (another
\* identity) were live, and p1 was told
C4_Witness ==
    \E k, j \in 1 .. Len(out) :
        /\ out[k].sig = "executeComplete" /\ out[k].dev = "p2"
        /\ out[j].sig = "executeEventBroadcasted" /\ out[j].dev = "p1"
        /\ out[j].msg = out[k].msg
        /\ out[j].dwCommand = "READ"
        /\ Live("p1") /\ Live("p3")

\* request i is a capability query of identity d
CapQuery(i, d) ==
    /\ issued[i].fn = "WFSGetInfo"
    /\ objectName(issued[i].dev) = d
    /\ issued[i].dwCommand = m_capabilitiesCategory(issued[i].dev)

\* a capabilities() call on identity d has queried the backend and returned
QueriedAndReturned(d) ==
    \E i \in Ids :
        /\ CapQuery(i, d)
        /\ hres[i] # Absent
        /\ \A n \in 1 .. Len(stack) : stack[n].msgid # i

\* C5 as stated: after a first capabilities() call on an identity has run
\* its query and returned, no later call on that identity issues a query,
\* later calls return the value the cache holds, and a cache entry that
\* holds a map never changes.
C5_OneQueryForTwoCalls ==
    [][\A d \in Identities :
          /\ QueriedAndReturned(d) => nQuery'[d] = nQuery[d]
          /\ m_capabilities[d] # {} => m_capabilities'[d] = m_capabilities[d]
      ]_vars

\* C5, amended: once the cache entry of an identity holds a non-empty map,
\* no capabilities() call on any proxy of that identity issues a query,
\* each such call returns exactly that map, and the entry never changes;
\* and no single call issues more than one query. (A first call whose query
\* fails, or whose reply has no lpBuffer or an empty one, leaves the entry
\* empty, and the next call queries again.)
C5_CachedOnceNonEmpty ==
    [][\A d \in Identities :
          /\ nQuery'[d] <= nQuery[d] + 1
          /\ m_capabilities[d] # {} =>
                /\ nQuery'[d] = nQuery[d]
                /\ m_capabilities'[d] = m_capabilities[d]
                /\ (ret'.fn = "capabilities" /\ objectName(ret'.dev) = d)
                      => ret'.caps = m_capabilities[d]
      ]_vars

\* the second proxy is answered from the cache the first one filled
C5_Witness ==
    /\ ret.fn = "capabilities" /\ ret.dev = "p2"
    /\ ret.ok /\ ret.id = NoId
    /\ ret.caps # {} /\ ret.caps = m_capabilities["CRD1"]
    /\ nQuery["CRD1"] = 1
    /\ issued[1].dev = "p1"

\* C6: an execute, cancel, syncCancel or getInfo called while the proxy is
\* not connected and the connection cannot be made returns in that same
\* step (no nested event loop is entered) with the failure value (an empty
\* id, false, an empty map), writes no frame, and leaves the pending set,
\* the handlers and the command queue as they were.
C6_ConnectFailure ==
    [][((\A p \in Proxies : ~conn[p] /\ ~conn'[p])
            /\ Len(stack') >= Len(stack))
          => /\ ret'.fn \in Ops
             /\ ret'.id = NoId /\ ~ret'.ok /\ ret'.msg = NoMsg
             /\ stack' = stack
             /\ out' = << >>
             /\ m_pending' = m_pending
             /\ handlers' = handlers
             /\ commands' = commands
             /\ uuids' = uuids]_vars

\* a syncCancel failed to connect while a command was still queued for the
\* identity, after the warning had been logged
C6_Witness ==
    /\ ret.fn = "syncCancel" /\ ~ret.ok /\ ret.id = NoId
    /\ ~conn["p1"]
    /\ commands["CRD1"] # << >>
    /\ nWarn["CRD1"] = 1
    /\ stack = << >>

C8_BadAddressIsOrdinaryFailure ==
    /\ proc = "running"
    /\ \A p \in Proxies :
          (/\ Live(p)
           /\ ~createSocket(addr[p]).io
           /\ ret.dev = p
           /\ ret.fn \in Ops \cup {"status"})
          => /\ ret.id = NoId /\ ~ret.ok
             /\ ret.msg = NoMsg /\ ret.caps = {}
             /\ nWarn[objectName(p)] = 1

\* the command and payload of the oldest execute of identity d that has been
\* acknowledged and has not completed, or the empty pair
OldestAcked(d) ==
    IF acked[d] # << >>
    THEN << issued[Head(acked[d])].dwCommand,
            issued[Head(acked[d])].lpCmdData >>
    ELSE << "", "" >>

\* C9: every systemEventRecieved emitted in a step carries the command code
\* and payload of the oldest execute of the proxy's identity that was, when
\* the frame arrived, acknowledged and not yet completed, and the empty
\* command and payload when there was none.
C9_SystemEventCarriesOldest ==
    [][\A k \in 1 .. Len(out') :
          out'[k].sig = "systemEventRecieved" =>
              << out'[k].dwCommand, out'[k].lpCmdData >>
                  = OldestAcked(objectName(out'[k].dev))]_vars

\* C10: syncCancel returns true exactly when its cancel was sent and the
\* reply to it carried WFS_SUCCESS; it returns false when the cancel could
\* not be sent and when the reply was a failure, a synthesized connection
\* loss included.
C10_SyncCancelReportsOutcome ==
    ret.fn = "syncCancel" =>
        (ret.ok <=> (ret.id # NoId /\ hres[ret.id] = "WFS_SUCCESS"))

\* C11: the step that destroys a proxy delivers a completion for every
\* request that was pending on it, none of them stays pending, and when
\* every execute ever issued on the identity was issued by that proxy (so
\* that every queued command is one of its own) the command queue of the
\* identity is empty afterwards.
C11_DestroyFinalizesPending ==
    [][\A p \in Proxies :
          (Live(p) /\ ~Live(p)') =>
              /\ \A i \in DOMAIN m_pending[p] :
                    \E k \in 1 .. Len(out') :
                        /\ out'[k].sig = CompletionOf(issued[i].fn)
                        /\ out'[k].msg.msgid = i
              /\ (\A i \in Ids :
                     (/\ issued[i].fn = "WFSExecute"
                      /\ objectName(issued[i].dev) = objectName(p))
                     => issued[i].dev = p)
                 => commands'[objectName(p)] = << >>]_vars

\* C12: while calls are blocked (the stack is not empty), a completing frame
\* accepted for a pending execute of the proxy has its executeComplete
\* emitted in that same step, with every blocked call still blocked; and a
\* blocked call returns only after its own reply was dispatched: a getInfo,
\* status or capabilities returns the frame that carries its id, a
\* syncCancel returns after the reply to its cancel id.
C12_ReentrantDispatch ==
    /\ [][(stack # << >> /\ proc' = "running") =>
             \A k \in 1 .. Len(out') :
                 (/\ out'[k].sig = "executeEventBroadcasted"
                  /\ Completing(out'[k].msg)
                  /\ Has(m_pending[out'[k].dev], out'[k].msg.msgid))
                 => /\ Emitted(out', "executeComplete", out'[k].dev,
                               out'[k].msg)
                    /\ Len(stack') = Len(stack)]_vars
    /\ [][(stack # << >> /\ stack' = SubSeq(stack, 1, Len(stack) - 1))
          => IF Top.fn = "getInfo"
             THEN Top.rv.msgid = Top.msgid
             ELSE nComplete[Top.msgid] = 1]_vars

\* C13: the connection-failure warning has been logged at most once for
\* each device identity, and exactly for the identities in the warn-once
\* set, whatever connect attempts, successes, disconnects and reconnect
\* failures the proxies went through.
C13_WarnOncePerIdentity ==
    \A d \in Identities :
        /\ nWarn[d] <= 1
        /\ nWarn[d] = 1 <=> d \in warnOnce

\* both identities have been warned about, and a proxy that had been
\* connected before has just failed to reconnect
C13_Witness ==
    /\ \A d \in Identities : nWarn[d] = 1
    /\ ret.fn = "execute" /\ ~ret.ok /\ ret.dev = "p2"
    /\ ~conn["p2"]
    /\ \E i \in Ids : issued[i].dev = "p2"
    /\ \E i \in Ids : issued[i].dev = "p1"

\* C14: a cancel id is pending exactly until its first reply; any frame
\* dispatched with that id while it is pending (whatever its hResult or
\* marker) emits cancelComplete with that frame, once, and cancelComplete is
\* never emitted for the id again; a reply read from the connection removes
\* the cancel id and nothing else from the pending set, so the target of
\* the cancel stays pending with its handler connected.
C14_CancelReply ==
    /\ [](\A i \in Ids :
             issued[i].fn = "WFSCancel" =>
                 /\ nComplete[i] <= 1
                 /\ Count(out, "cancelComplete", issued[i].dev, i)
                       <= nComplete[i]
                 /\ Has(m_pending[issued[i].dev], i) <=> nComplete[i] = 0)
    /\ [][\A i \in Ids :
             (issued[i].fn = "WFSCancel" /\ Has(m_pending[issued[i].dev], i))
             => LET p == issued[i].dev
                    t == issued[i].target
                IN  /\ \A k \in 1 .. Len(out') :
                          (out'[k].dev = p /\ out'[k].msg.msgid = i)
                          => /\ Emitted(out', "cancelComplete", p, out'[k].msg)
                             /\ Count(out', "cancelComplete", p, i) = 1
                    /\ (nComplete'[i] = 1 /\ conn'[p])
                          => /\ m_pending'[p] = Remove(m_pending[p], i)
                             /\ Has(m_pending[p], t)
                                   => Has(handlers'[p], t)]_vars

\* a pending execute was the target of a cancel whose reply arrived as a
\* failure; the execute then completed successfully through its own frame
C14_Witness ==
    \E i, t \in Ids :
        /\ issued[i].fn = "WFSCancel" /\ issued[i].target = t
        /\ issued[t].fn = "WFSExecute"
        /\ hres[i] = "WFS_ERR_HARDWARE_ERROR"
        /\ hres[t] = "WFS_SUCCESS"
        /\ Count(out, "executeComplete", "p1", t) = 1
        /\ nComplete[i] = 1

\* C15: in every state the command queue of an identity is no longer than
\* the number of executes of that identity that have been acknowledged and
\* have not completed.
C15_QueueBoundedByAcked ==
    \A d \in Identities : Len(commands[d]) <= Len(acked[d])

\* C16: no global mutex is held while a blocking wait runs (capabilitiesMutex
\* is free whenever a call is blocked in a nested event loop), and none is
\* held while the subscribers of a signal are being called.
C16_NoLockAcrossWaitOrCallback ==
    /\ stack # << >> => ~capLock
    /\ \A k \in 1 .. Len(out) : LocksHeldAtEmit(out[k].sig) = {}


\* the frames readyRead dispatched in the step
Fresh(p) == SubSeq(wire'[p].got, Len(wire[p].got) + 1, Len(wire'[p].got))

IsPrefix(a, b) == Len(a) <= Len(b) /\ a = SubSeq(b, 1, Len(a))

\* C17: however the stream is cut into notifications, the frames readyRead
\* has dispatched are the first frames the backend wrote, each once and in
\* the order written; the bytes it consumed are exactly the bytes of those
\* frames, so the bytes of a frame that has not fully arrived are all still
\* in the device; when readyRead has returned no complete frame is left in
\* the device; and the step of a notification emits message for each frame
\* it completes (seen on the service events: one serviceEventRecieved per
\* service event frame).
C17_TransactionalRead ==
    /\ [](\A p \in Proxies :
            /\ IsPrefix(wire[p].got, wire[p].sent)
            /\ EncodeAll(wire[p].sent)
                  = EncodeAll(wire[p].got) \o m_io[p].avail
                    \o m_io[p].inflight
            /\ ~ReadTransaction(m_io[p].avail).commit)
    /\ [][\A p \in Proxies :
            proc' = "running" =>
                Len(SelectSeq(out', LAMBDA e :
                        e.sig = "serviceEventRecieved" /\ e.dev = p))
                = Len(SelectSeq(Fresh(p), LAMBDA m :
                        m.message = "WFS_SERVICE_EVENT"))]_vars

\* one notification dispatched two frames and left the device holding the
\* first bytes of a third
C17_Witness ==
    \E p \in Proxies :
        /\ Len(wire[p].got) >= 2
        /\ Len(out) >= 2
        /\ m_io[p].avail # << >>
        /\ Len(wire[p].sent) = Len(wire[p].got) + 1


\* the frames the classifier lambda of the constructor acts on
IsEvent(msg) ==
    msg.message \in {"WFS_SERVICE_EVENT", "WFS_USER_EVENT",
                     "WFS_SYSTEM_EVENT"}

\* C18: a notification that brings only frames that are no service, user or
\* system event and whose ids are not pending on the proxy (stray, or late
\* after the request completed) emits no signal and leaves the pending
\* set, the command queues and the capability cache as they were.
C18_StrayFrameDiscarded ==
    [][\A p \in Proxies :
          (/\ Fresh(p) # << >>
           /\ proc' = "running"
           /\ \A k \in DOMAIN Fresh(p) :
                 /\ ~IsEvent(Fresh(p)[k])
                 /\ ~Has(m_pending[p], Fresh(p)[k].msgid))
          => /\ SelectSeq(out', LAMBDA e : e.sig # "qWarning") = << >>
             /\ m_pending' = m_pending
             /\ commands' = commands
             /\ m_capabilities' = m_capabilities]_vars


\* the ids that leave the pending set of p in the step
Gone(p) == DOMAIN m_pending[p] \ DOMAIN m_pending'[p]

\* C19: a frame completes at most one request of a proxy.  In a step that
\* is not the loss of the connection, at most one id leaves the pending set
\* of the proxy; every other pending id stays pending with its lambda
\* connected as it was, and no executeComplete, cancelComplete or getInfo
\* failure of the step carries its id; such an id is still completed by its
\* own completing frame whenever that arrives (for an execute: the step in
\* which its lambda accepts a completing frame emits executeComplete for
\* it and removes it).  Only the loss of the connection removes several ids
\* in one step.
C19_OthersUntouched ==
    /\ [](\A p \in Proxies : \A j \in DOMAIN m_pending[p] :
            Has(handlers[p], j))
    /\ [][\A p \in Proxies :
            (conn'[p] = conn[p] /\ proc' = "running") =>
                /\ Cardinality(Gone(p)) <= 1
                /\ \A j \in DOMAIN m_pending[p] \ Gone(p) :
                      /\ m_pending'[p][j] = m_pending[p][j]
                      /\ handlers'[p][j] = handlers[p][j]
                      /\ \A k \in DOMAIN Completions(out') :
                            Completions(out')[k].msg.msgid # j
                /\ \A j \in DOMAIN m_pending[p] :
                      (/\ IsExecute(j, p)
                       /\ \E k \in DOMAIN out' :
                             /\ out'[k].sig = "executeEventBroadcasted"
                             /\ out'[k].msg.msgid = j
                             /\ Completing(out'[k].msg))
                      => /\ Gone(p) = {j}
                         /\ Count(out', "executeComplete", p, j) = 1]_vars

\* a failure frame has just completed one execute while two other requests
\* of the proxy are still pending
C19_Witness ==
    \E p \in Proxies, i \in Ids :
        /\ conn[p]
        /\ Count(out, "executeComplete", p, i) = 1
        /\ hres[i] = "WFS_ERR_HARDWARE_ERROR"
        /\ Cardinality(DOMAIN m_pending[p]) = 2


\* the frames about id i that the execute lambda of p accepts in the step
AcceptedNext(p, i) ==
    {out'[k].msg : k \in {j \in DOMAIN out' :
                             /\ out'[j].sig = "executeEventBroadcasted"
                             /\ out'[j].dev = p
                             /\ out'[j].msg.msgid = i}}

\* C20: when the execute lambda of a pending execute accepts a success
\* frame that is marked WFS_EXECUTE_EVENT or carries no message marker, the
\* id stays pending with its lambda connected and no executeComplete is
\* emitted for it on any proxy.  The marked frame emits executeEventRecieved
\* once on the issuer, carrying the frame, and leaves the command queues
\* alone; the unmarked frame emits no executeEventRecieved and appends one
\* pair, the command code and payload the request was issued with, to the
\* tail of the queue of the issuer's identity, and leaves the other queues
\* alone.  (A debug build stops at Q_ASSERT when the unmarked frame echoes
\* another command code; the statement is about the steps the process
\* survives.)
C20_IntermediateFrames ==
    [][\A p \in Proxies : \A i \in DOMAIN m_pending[p] :
          (IsExecute(i, p) /\ proc' = "running") =>
              \A msg \in AcceptedNext(p, i) :
                  (/\ msg.hResult = "WFS_SUCCESS"
                   /\ msg.message \in {Absent, "WFS_EXECUTE_EVENT"})
                  => /\ m_pending'[p] = m_pending[p]
                     /\ handlers'[p] = handlers[p]
                     /\ \A q \in Proxies :
                           Count(out', "executeComplete", q, i) = 0
                     /\ IF msg.message = "WFS_EXECUTE_EVENT"
                        THEN /\ Count(out', "executeEventRecieved", p, i) = 1
                             /\ Emitted(out', "executeEventRecieved", p, msg)
                             /\ commands' = commands
                        ELSE /\ Count(out', "executeEventRecieved", p, i) = 0
                             /\ commands' =
                                   [commands EXCEPT ![objectName(p)] =
                                       Append(@, << issued[i].dwCommand,
                                                    issued[i].lpCmdData >>)]
      ]_vars

\* an execute of READ has just been acknowledged behind an acknowledged
\* EJECT and is still pending
C20_Witness ==
    \E p \in Proxies, i \in Ids :
        /\ IsExecute(i, p)
        /\ Has(m_pending[p], i)
        /\ \E msg \in Accepted(p, i) :
              msg.hResult = "WFS_SUCCESS" /\ msg.message = Absent
        /\ commands[objectName(p)]
              = << << "EJECT", "none" >>, << "READ", "track2" >> >>


\* the proxy objects that exist: constructed and not yet destroyed
Alive == {p \in Proxies : addr[p] # NoAddr}

\* C21: the device list holds exactly the proxies that exist, each once; it
\* changes only in a step that constructs a proxy, which puts that proxy at
\* its end, or destroys one, which takes that proxy out and keeps the order
\* of the others.
C21_RegistryIsLiveSet ==
    /\ [](/\ {devices[k] : k \in DOMAIN devices} = Alive
          /\ Len(devices) = Cardinality(Alive))
    /\ [][devices' # devices =>
            \/ \E p \in Proxies \ Alive :
                  /\ addr'[p] # NoAddr
                  /\ devices' = Append(devices, p)
            \/ \E p \in Alive :
                  /\ addr'[p] = NoAddr
                  /\ devices' = SelectSeq(devices, LAMBDA x : x # p)]_vars

\* the first of two registered proxies has been destroyed while the second
\* has a request pending
C21_Witness ==
    /\ devices = << "p2" >>
    /\ addr["p1"] = NoAddr
    /\ m_pending["p2"] # EmptyMap
    /\ \E i \in Used : issued[i].dev = "p1"


\* C22: the thread never locks a non-recursive mutex it already holds, so
\* no call blocks forever on itself: neither a constructor or destructor
\* run by a slot of executeEventBroadcasted, nor capabilities() called
\* while an outer capabilities() waits for its reply.
C22_NoSelfDeadlock == proc # "deadlocked"


\* C23: whenever a syncCancel is blocked in its event loop, its cancel frame
\* sent, it eventually returns (or the process has ended), whatever id it
\* was aimed at, given that the backend answers the cancel, that the
\* connection is eventually lost, and that an exited loop returns.
C23_SyncCancelReturns ==
    (\E k \in DOMAIN stack : stack[k].fn = "syncCancel")
        ~> (stack = << >> \/ proc # "running")


\* C24: a syncCancel that returns from its event loop leaves neither its
\* cancelComplete lambda (c1) nor its executeComplete lambda (c2) connected,
\* so no proxy ever carries a lambda of a finished call.
C24_SubscriptionsReleased ==
    /\ [](\A p \in Proxies : stale[p] = {})
    /\ [][(stack # << >> /\ stack' = SubSeq(stack, 1, Len(stack) - 1)
            /\ Top.fn = "syncCancel" /\ ~Top.gone)
          => (~Top.c1 /\ ~Top.c2)]_vars

====
